---- MODULE Spec2Model ----
(***************************************************************************)
(* Model of the BIOS/GRUB2 boot component of bootupd (src/src/bios.rs).    *)
(*                                                                         *)
(* State: the two persisted records (the build-time update metadata        *)
(* written by generate_update_metadata and read by query_update, and the   *)
(* installed record kept by the driver), plus a record of the last         *)
(* lifecycle call: which operation ran, its arguments, what it returned    *)
(* and the collaborator calls it made, in order (a recording test double), *)
(* cleared before the next call.                                           *)
(*                                                                         *)
(* Every method of Bios is an operator that yields the SET of outcomes the *)
(* method can have; the answers of the external collaborators (block       *)
(* device locator, EFI probe, package database, file system, the           *)
(* grub2-install process) are the nondeterminism, drawn only where the     *)
(* code consults them.                                                     *)
(***************************************************************************)
EXTENDS Integers, Sequences, FiniteSets, TLC

VARIABLES
    updateMeta,   \* Option<ContentMetadata>: persisted build-time record
    installed,    \* Option<InstalledContent>: persisted installed record
    op,           \* name of the call that just returned ("none" between calls)
    arg,          \* arguments of that call
    result,       \* what that call returned (or that it panicked)
    log,          \* collaborator calls made by that call, in order
    adoptSeen,    \* Option<Adoptable>: what the last query_adopt call told the driver
    lastQuery     \* Option: the number of query_update calls made since the last
                  \* install, run_update, adopt_update or generate_update_metadata
                  \* call, and what the latest of them returned

vars == <<updateMeta, installed, op, arg, result, log, adoptSeen, lastQuery>>

----------------------------------------------------------------------------
(* Bounds *)

MaxVersion == 2     \* package builds 1..MaxVersion
NumDevices == 2     \* block devices 1..NumDevices
CmpMax == 2         \* values per metadata field in the comparison check
MaxQueries == 2     \* consecutive query_update calls counted (more are counted as this many)

Versions == 1..MaxVersion
Devices == 1..NumDevices

\* What can back a mount point: nothing, one device, or all of them.
Topologies == {{}} \cup { {d} : d \in Devices } \cup {Devices}

----------------------------------------------------------------------------
(* Data model *)

None == <<>>
Some(x) == <<x>>

\* ContentMetadata {package identity, version, build timestamp}
ContentMetadata(p, v, t) == [pkg |-> p, version |-> v, timestamp |-> t]

\* What the package database can report for /usr/sbin/grub2-install: builds
\* of the one owning package, build v having build time v.
LiveMetas == { ContentMetadata(1, v, v) : v \in Versions }

\* All field combinations, for the field-wise comparison.
CmpMetas == { ContentMetadata(p, v, t) : p \in 1..CmpMax, v \in 1..CmpMax, t \in 1..CmpMax }

InstalledContent(m, af) == [meta |-> m, filetree |-> None, adopted_from |-> af]

Adoptable(v) == [version |-> v]

\* Result<T>: Ok(value), Err(error), or a panic unwinding out of the call.
Ok(v) == [kind |-> "ok", val |-> <<v>>, err |-> ""]
Err(e) == [kind |-> "err", val |-> <<>>, err |-> e]
Panic(msg) == [kind |-> "panic", val |-> <<>>, err |-> msg]

\* One recorded collaborator call: who called, what, a numeric argument or
\* payload (device or version, 0 if none) and what came back.
Ev(by, call, n, ret) == [by |-> by, call |-> call, n |-> n, ret |-> ret]

\* An outcome of a method: its result, the calls it made, and the update
\* metadata record it wrote (None if it wrote nothing).
Out(res, ev, written) == [res |-> res, ev |-> ev, written |-> written]

\* Arguments of a call: the target device (install), the update metadata
\* (adopt_update), and the installed record the driver holds when it calls.
NoArg == [device |-> 0, update |-> None, cur |-> None]

----------------------------------------------------------------------------
(* Error messages *)

E_NoMeta == "No update metadata for component BIOS found"
E_Modules == "Failed to find grub2-modules"
E_Bin == "Failed to find usr/sbin/grub2-install"
E_Run == "Failed to run grub2-install"
E_Adopt == "Failed to find adoptable system"
E_NoDevice == "no device found backing mount point"
E_MultiDevice == "multiple devices found backing mount point"
E_Efi == "efi boot mode probe failed"
E_Probe == "adoptable state probe failed"
E_Query == "package query failed"
E_Write == "writing update metadata failed"
E_Io == "io error"

----------------------------------------------------------------------------
(* External collaborators: the answers each can give *)

\* blockdev::get_single_device(mount_point) on a machine where the set
\* `devs` of devices backs the mount point: the one device, or an error on
\* zero or several.
get_single_device(devs) ==
    IF Cardinality(devs) = 1 THEN Ok(CHOOSE d \in devs : TRUE)
    ELSE IF devs = {} THEN Err(E_NoDevice)
    ELSE Err(E_MultiDevice)

\* blockdev::get_bios_boot_partition(device): Ok(Some(partition)), Ok(None)
\* or an error.
blockdev_get_bios_boot_partition(device) ==
    {Ok(Some(device)), Ok(None), Err(E_Io)}

\* efi::is_efi_booted(): Ok(true), Ok(false) or an error.
is_efi_booted == {Ok(TRUE), Ok(FALSE), Err(E_Efi)}

\* component::query_adopt_state(): the generic adoptable-prior-state probe.
query_adopt_state ==
    {Ok(None), Err(E_Probe)} \cup { Ok(Some(Adoptable(v))) : v \in Versions }

\* component::get_component_update(sysroot, component): the persisted
\* build-time record of the component, if any.
get_component_update == Ok(updateMeta)

\* packagesystem::query_files(sysroot, [grub_install]).
query_files == { Ok(m) : m \in LiveMetas } \cup {Err(E_Query)}

\* component::write_update_metadata(sysroot, component, meta): all or nothing.
write_update_metadata == {Ok(TRUE), Err(E_Write)}

\* Exit status of the spawned grub2-install process.
ExitStatus == {"success", "failure"}

\* How an answer is written in the log.
Ret(r) == IF r.kind = "ok" THEN "ok" ELSE r.err

BoolRet(r) ==
    IF r.kind # "ok" THEN r.err
    ELSE IF r.val[1] THEN "true"
    ELSE "false"

OptRet(r) ==
    IF r.kind # "ok" THEN r.kind
    ELSE IF r.val[1] = None THEN "none"
    ELSE "some"

----------------------------------------------------------------------------
(* Bios: private helpers *)

\* fn check_grub_modules(&self) -> Result<bool>
check_grub_modules == {Ok(TRUE), Ok(FALSE), Err(E_Io)}

\* Mutant of run_grub_install: the exit status of the installer is not looked at.
run_grub_install_ignores_status(device) ==
    UNION {
        LET e1 == <<Ev("run_grub_install", "check_grub_modules", 0, BoolRet(m))>> IN
        IF m.kind = "err" THEN {Out(m, e1, None)}
        ELSE IF ~m.val[1] THEN {Out(Err(E_Modules), e1, None)}
        ELSE UNION {
            LET e2 == Append(e1, Ev("run_grub_install", "exists",
                                    0, IF b THEN "true" ELSE "false")) IN
            IF ~b THEN {Out(Err(E_Bin), e2, None)}
            ELSE { Out(Ok("unit"),
                       Append(e2, Ev("run_grub_install", "grub2-install", device, st)),
                       None)
                 : st \in ExitStatus }
          : b \in BOOLEAN }
      : m \in check_grub_modules }

\* Mutant of run_grub_install: the installer binary is looked for before the
\* module directory.
run_grub_install_bin_first(device) ==
    UNION {
        LET e1 == <<Ev("run_grub_install", "exists",
                       0, IF b THEN "true" ELSE "false")>> IN
        IF ~b THEN {Out(Err(E_Bin), e1, None)}
        ELSE UNION {
            LET e2 == Append(e1, Ev("run_grub_install", "check_grub_modules",
                                    0, BoolRet(m))) IN
            IF m.kind = "err" THEN {Out(m, e2, None)}
            ELSE IF ~m.val[1] THEN {Out(Err(E_Modules), e2, None)}
            ELSE { LET e3 == Append(e2, Ev("run_grub_install", "grub2-install",
                                           device, st)) IN
                   IF st # "success" THEN Out(Err(E_Run), e3, None)
                   ELSE Out(Ok("unit"), e3, None)
                 : st \in ExitStatus }
          : m \in check_grub_modules }
      : b \in BOOLEAN }

\* Mutant of run_grub_install: a failed installer run is tried once more.
run_grub_install_retries(device) ==
    UNION {
        LET e1 == <<Ev("run_grub_install", "check_grub_modules", 0, BoolRet(m))>> IN
        IF m.kind = "err" THEN {Out(m, e1, None)}
        ELSE IF ~m.val[1] THEN {Out(Err(E_Modules), e1, None)}
        ELSE UNION {
            LET e2 == Append(e1, Ev("run_grub_install", "exists",
                                    0, IF b THEN "true" ELSE "false")) IN
            IF ~b THEN {Out(Err(E_Bin), e2, None)}
            ELSE UNION {
                   LET e3 == Append(e2, Ev("run_grub_install", "grub2-install",
                                           device, st)) IN
                   IF st = "success" THEN {Out(Ok("unit"), e3, None)}
                   ELSE { LET e4 == Append(e3, Ev("run_grub_install",
                                                  "grub2-install", device, st2)) IN
                          IF st2 # "success" THEN Out(Err(E_Run), e4, None)
                          ELSE Out(Ok("unit"), e4, None)
                        : st2 \in ExitStatus }
                 : st \in ExitStatus }
          : b \in BOOLEAN }
      : m \in check_grub_modules }

\* fn run_grub_install(&self, dest_root, device) -> Result<()>
run_grub_install(device) ==
    UNION {
        LET e1 == <<Ev("run_grub_install", "check_grub_modules", 0, BoolRet(m))>> IN
        IF m.kind = "err" THEN {Out(m, e1, None)}
        ELSE IF ~m.val[1] THEN {Out(Err(E_Modules), e1, None)}
        ELSE UNION {
            LET e2 == Append(e1, Ev("run_grub_install", "exists",
                                    0, IF b THEN "true" ELSE "false")) IN
            IF ~b THEN {Out(Err(E_Bin), e2, None)}
            ELSE { LET e3 == Append(e2, Ev("run_grub_install", "grub2-install",
                                           device, st)) IN
                   IF st # "success" THEN Out(Err(E_Run), e3, None)
                   ELSE Out(Ok("unit"), e3, None)
                 : st \in ExitStatus }
          : b \in BOOLEAN }
      : m \in check_grub_modules }

\* fn get_bios_boot_partition(&self) -> Option<String>
\* (kind "ok" carries the Option; kind "panic" is the failed expect)
get_bios_boot_partition(devs) ==
    LET g == get_single_device(devs)
        e1 == <<Ev("get_bios_boot_partition", "get_single_device",
                   IF g.kind = "ok" THEN g.val[1] ELSE 0, Ret(g))>>
    IN  IF g.kind = "ok"
        THEN { LET e2 == Append(e1, Ev("get_bios_boot_partition",
                                       "blockdev::get_bios_boot_partition",
                                       g.val[1], OptRet(p))) IN
               IF p.kind = "err" THEN Out(Panic("get bios_boot part"), e2, None)
               ELSE Out(Ok(p.val[1]), e2, None)
             : p \in blockdev_get_bios_boot_partition(g.val[1]) }
        ELSE {Out(Ok(None), e1, None)}

----------------------------------------------------------------------------
(* impl Component for Bios *)

\* Mutant of query_update: a stub that never reports a record.
query_update_stub ==
    Out(Ok(None), <<Ev("query_update", "get_component_update", 0, "none")>>, None)

\* Mutant of query_update: the record is reported once; later calls find it
\* consumed.
query_update_once ==
    IF lastQuery # None THEN query_update_stub
    ELSE LET u == get_component_update IN
         Out(u, <<Ev("query_update", "get_component_update", 0, OptRet(u))>>, None)

\* fn query_update(&self, sysroot) -> Result<Option<ContentMetadata>>
query_update ==
    LET u == get_component_update IN
    Out(u, <<Ev("query_update", "get_component_update", 0, OptRet(u))>>, None)

\* Mutant of install: the installer runs before the metadata lookup.
install_grub_first(device) ==
    LET u == get_component_update IN
    { LET e == Append(r.ev, Ev("install", "get_component_update", 0, OptRet(u))) IN
      IF r.res.kind # "ok" THEN Out(r.res, r.ev, None)
      ELSE IF u.val[1] = None THEN Out(Err(E_NoMeta), e, None)
      ELSE Out(Ok(InstalledContent(u.val[1][1], None)), e, None)
    : r \in run_grub_install(device) }

\* Mutant of install: the result is marked as adopted from the installed version.
install_marks_adopted(device) ==
    LET u == get_component_update
        e1 == <<Ev("install", "get_component_update", 0, OptRet(u))>>
    IN  IF u.kind = "err" THEN {Out(u, e1, None)}
        ELSE IF u.val[1] = None THEN {Out(Err(E_NoMeta), e1, None)}
        ELSE { IF r.res.kind # "ok" THEN Out(r.res, e1 \o r.ev, None)
               ELSE Out(Ok(InstalledContent(u.val[1][1], Some(u.val[1][1].version))),
                        e1 \o r.ev, None)
             : r \in run_grub_install(device) }

\* fn install(&self, src_root, dest_root, device, _update_firmware)
\*     -> Result<InstalledContent>
install(device) ==
    LET u == get_component_update
        e1 == <<Ev("install", "get_component_update", 0, OptRet(u))>>
    IN  IF u.kind = "err" THEN {Out(u, e1, None)}
        ELSE IF u.val[1] = None THEN {Out(Err(E_NoMeta), e1, None)}
        ELSE { IF r.res.kind # "ok" THEN Out(r.res, e1 \o r.ev, None)
               ELSE Out(Ok(InstalledContent(u.val[1][1], None)), e1 \o r.ev, None)
             : r \in run_grub_install(device) }

\* Mutant of generate_update_metadata: a failed write leaves the record behind.
generate_update_metadata_partial_write ==
    UNION {
        LET e1 == <<Ev("generate_update_metadata", "exists",
                       0, IF b THEN "true" ELSE "false")>> IN
        IF ~b THEN {Out(Err(E_Bin), e1, None)}
        ELSE UNION {
            LET e2 == Append(e1, Ev("generate_update_metadata", "query_files",
                                    IF q.kind = "ok" THEN q.val[1].version ELSE 0,
                                    Ret(q))) IN
            IF q.kind = "err" THEN {Out(q, e2, None)}
            ELSE { LET e3 == Append(e2, Ev("generate_update_metadata",
                                           "write_update_metadata",
                                           q.val[1].version, Ret(w))) IN
                   IF w.kind = "err" THEN Out(w, e3, Some(q.val[1]))
                   ELSE Out(Ok(q.val[1]), e3, Some(q.val[1]))
                 : w \in write_update_metadata }
          : q \in query_files }
      : b \in BOOLEAN }

\* Mutant of generate_update_metadata: the existence test lost its negation.
generate_update_metadata_inverted_check ==
    UNION {
        LET e1 == <<Ev("generate_update_metadata", "exists",
                       0, IF b THEN "true" ELSE "false")>> IN
        IF b THEN {Out(Err(E_Bin), e1, None)}
        ELSE UNION {
            LET e2 == Append(e1, Ev("generate_update_metadata", "query_files",
                                    IF q.kind = "ok" THEN q.val[1].version ELSE 0,
                                    Ret(q))) IN
            IF q.kind = "err" THEN {Out(q, e2, None)}
            ELSE { LET e3 == Append(e2, Ev("generate_update_metadata",
                                           "write_update_metadata",
                                           q.val[1].version, Ret(w))) IN
                   IF w.kind = "err" THEN Out(w, e3, None)
                   ELSE Out(Ok(q.val[1]), e3, Some(q.val[1]))
                 : w \in write_update_metadata }
          : q \in query_files }
      : b \in BOOLEAN }

\* fn generate_update_metadata(&self, sysroot_path) -> Result<ContentMetadata>
generate_update_metadata ==
    UNION {
        LET e1 == <<Ev("generate_update_metadata", "exists",
                       0, IF b THEN "true" ELSE "false")>> IN
        IF ~b THEN {Out(Err(E_Bin), e1, None)}
        ELSE UNION {
            LET e2 == Append(e1, Ev("generate_update_metadata", "query_files",
                                    IF q.kind = "ok" THEN q.val[1].version ELSE 0,
                                    Ret(q))) IN
            IF q.kind = "err" THEN {Out(q, e2, None)}
            ELSE { LET e3 == Append(e2, Ev("generate_update_metadata",
                                           "write_update_metadata",
                                           q.val[1].version, Ret(w))) IN
                   IF w.kind = "err" THEN Out(w, e3, None)
                   ELSE Out(Ok(q.val[1]), e3, Some(q.val[1]))
                 : w \in write_update_metadata }
          : q \in query_files }
      : b \in BOOLEAN }

\* The tail of query_adopt: crate::component::query_adopt_state()
delegate_query_adopt_state(e) ==
    { Out(r, Append(e, Ev("query_adopt", "query_adopt_state",
                          IF r.kind = "ok" /\ r.val[1] # None
                          THEN r.val[1][1].version ELSE 0,
                          OptRet(r))), None)
      : r \in query_adopt_state }

\* Mutant of query_adopt: the gate tests is_some() where the code tests is_none().
query_adopt_inverted(devs) ==
    UNION {
        LET e1 == <<Ev("query_adopt", "is_efi_booted", 0, BoolRet(b))>> IN
        IF b.kind = "err" THEN {Out(b, e1, None)}
        ELSE IF b.val[1]
        THEN UNION {
            IF p.res.kind = "panic" THEN {Out(p.res, e1 \o p.ev, None)}
            ELSE IF p.res.val[1] # None THEN {Out(Ok(None), e1 \o p.ev, None)}
            ELSE delegate_query_adopt_state(e1 \o p.ev)
          : p \in get_bios_boot_partition(devs) }
        ELSE delegate_query_adopt_state(e1)
      : b \in is_efi_booted }

\* Mutant of query_adopt: an EFI-booted machine is skipped whether or not it
\* has a BIOS-boot partition.
query_adopt_efi_skips(devs) ==
    UNION {
        LET e1 == <<Ev("query_adopt", "is_efi_booted", 0, BoolRet(b))>> IN
        IF b.kind = "err" THEN {Out(b, e1, None)}
        ELSE IF b.val[1]
        THEN UNION {
            IF p.res.kind = "panic" THEN {Out(p.res, e1 \o p.ev, None)}
            ELSE {Out(Ok(None), e1 \o p.ev, None)}
          : p \in get_bios_boot_partition(devs) }
        ELSE delegate_query_adopt_state(e1)
      : b \in is_efi_booted }

\* fn query_adopt(&self) -> Result<Option<Adoptable>>   (x86_64)
query_adopt(devs) ==
    UNION {
        LET e1 == <<Ev("query_adopt", "is_efi_booted", 0, BoolRet(b))>> IN
        IF b.kind = "err" THEN {Out(b, e1, None)}
        ELSE IF b.val[1]
        THEN UNION {
            IF p.res.kind = "panic" THEN {Out(p.res, e1 \o p.ev, None)}
            ELSE IF p.res.val[1] = None THEN {Out(Ok(None), e1 \o p.ev, None)}
            ELSE delegate_query_adopt_state(e1 \o p.ev)
          : p \in get_bios_boot_partition(devs) }
        ELSE delegate_query_adopt_state(e1)
      : b \in is_efi_booted }

\* Mutant of adopt_update: when query_adopt answers none, an Adoptable seen
\* by an earlier query_adopt is used instead.
adopt_update_cached(devs, update) ==
    UNION {
        LET e1 == Append(q.ev, Ev("adopt_update", "query_adopt",
                                  IF q.res.kind = "ok" /\ q.res.val[1] # None
                                  THEN q.res.val[1][1].version ELSE 0,
                                  OptRet(q.res)))
            found == IF q.res.kind = "ok" /\ q.res.val[1] = None
                     THEN adoptSeen ELSE q.res.val[1]
        IN
        IF q.res.kind # "ok" THEN {Out(q.res, e1, None)}
        ELSE IF found = None THEN {Out(Err(E_Adopt), e1, None)}
        ELSE LET meta == found[1]
                 g == get_single_device(devs)
                 e2 == Append(e1, Ev("adopt_update", "get_single_device",
                                     IF g.kind = "ok" THEN g.val[1] ELSE 0, Ret(g)))
             IN  IF g.kind = "err" THEN {Out(g, e2, None)}
                 ELSE { IF r.res.kind # "ok" THEN Out(r.res, e2 \o r.ev, None)
                        ELSE Out(Ok(InstalledContent(update, Some(meta.version))),
                                 e2 \o r.ev, None)
                      : r \in run_grub_install(g.val[1]) }
      : q \in query_adopt(devs) }

\* Mutant of adopt_update: adopted_from takes the version of the update
\* instead of the version of the adopted installation.
adopt_update_update_version(devs, update) ==
    UNION {
        LET e1 == Append(q.ev, Ev("adopt_update", "query_adopt",
                                  IF q.res.kind = "ok" /\ q.res.val[1] # None
                                  THEN q.res.val[1][1].version ELSE 0,
                                  OptRet(q.res))) IN
        IF q.res.kind # "ok" THEN {Out(q.res, e1, None)}
        ELSE IF q.res.val[1] = None THEN {Out(Err(E_Adopt), e1, None)}
        ELSE LET g == get_single_device(devs)
                 e2 == Append(e1, Ev("adopt_update", "get_single_device",
                                     IF g.kind = "ok" THEN g.val[1] ELSE 0, Ret(g)))
             IN  IF g.kind = "err" THEN {Out(g, e2, None)}
                 ELSE { IF r.res.kind # "ok" THEN Out(r.res, e2 \o r.ev, None)
                        ELSE Out(Ok(InstalledContent(update, Some(update.version))),
                                 e2 \o r.ev, None)
                      : r \in run_grub_install(g.val[1]) }
      : q \in query_adopt(devs) }

\* fn adopt_update(&self, _, update) -> Result<InstalledContent>
adopt_update(devs, update) ==
    UNION {
        LET e1 == Append(q.ev, Ev("adopt_update", "query_adopt",
                                  IF q.res.kind = "ok" /\ q.res.val[1] # None
                                  THEN q.res.val[1][1].version ELSE 0,
                                  OptRet(q.res))) IN
        IF q.res.kind # "ok" THEN {Out(q.res, e1, None)}
        ELSE IF q.res.val[1] = None THEN {Out(Err(E_Adopt), e1, None)}
        ELSE LET meta == q.res.val[1][1]
                 g == get_single_device(devs)
                 e2 == Append(e1, Ev("adopt_update", "get_single_device",
                                     IF g.kind = "ok" THEN g.val[1] ELSE 0, Ret(g)))
             IN  IF g.kind = "err" THEN {Out(g, e2, None)}
                 ELSE { IF r.res.kind # "ok" THEN Out(r.res, e2 \o r.ev, None)
                        ELSE Out(Ok(InstalledContent(update, Some(meta.version))),
                                 e2 \o r.ev, None)
                      : r \in run_grub_install(g.val[1]) }
      : q \in query_adopt(devs) }

\* std::fs::read_link("/proc/self/fd/N") of the sysroot directory handle
read_link == {Ok(TRUE), Err(E_Io)}

\* Mutant of run_update: a device-resolution error is not returned; the
\* installer runs on a default device.
run_update_default_device(devs, cur) ==
    LET u == query_update
        e1 == Append(u.ev, Ev("run_update", "query_update", 0, OptRet(u.res)))
    IN  IF u.res.kind = "err" THEN {Out(u.res, e1, None)}
        ELSE IF u.res.val[1] = None THEN {Out(Panic("update available"), e1, None)}
        ELSE UNION {
            LET updatemeta == u.res.val[1][1]
                e2 == Append(e1, Ev("run_update", "read_link", 0, Ret(l)))
                g == get_single_device(devs)
                device == IF g.kind = "ok" THEN g.val[1] ELSE 0
                e3 == Append(e2, Ev("run_update", "get_single_device", device, Ret(g)))
            IN  IF l.kind = "err" THEN {Out(l, e2, None)}
                ELSE { IF r.res.kind # "ok" THEN Out(r.res, e3 \o r.ev, None)
                       ELSE Out(Ok(InstalledContent(updatemeta, None)),
                                e3 \o r.ev, None)
                     : r \in run_grub_install(device) }
          : l \in read_link }

\* Mutant of run_update: the result carries the metadata of the current
\* installed record instead of the update's.
run_update_keeps_current(devs, cur) ==
    LET u == query_update
        e1 == Append(u.ev, Ev("run_update", "query_update", 0, OptRet(u.res)))
    IN  IF u.res.kind = "err" THEN {Out(u.res, e1, None)}
        ELSE IF u.res.val[1] = None THEN {Out(Panic("update available"), e1, None)}
        ELSE UNION {
            LET e2 == Append(e1, Ev("run_update", "read_link", 0, Ret(l)))
                g == get_single_device(devs)
                e3 == Append(e2, Ev("run_update", "get_single_device",
                                    IF g.kind = "ok" THEN g.val[1] ELSE 0, Ret(g)))
            IN  IF l.kind = "err" THEN {Out(l, e2, None)}
                ELSE IF g.kind = "err" THEN {Out(g, e3, None)}
                ELSE { IF r.res.kind # "ok" THEN Out(r.res, e3 \o r.ev, None)
                       ELSE Out(Ok(InstalledContent(cur.meta, None)),
                                e3 \o r.ev, None)
                     : r \in run_grub_install(g.val[1]) }
          : l \in read_link }

\* Mutant of run_update: adopted_from is carried over from the current
\* installed record.
run_update_inherits_adopted(devs, cur) ==
    LET u == query_update
        e1 == Append(u.ev, Ev("run_update", "query_update", 0, OptRet(u.res)))
    IN  IF u.res.kind = "err" THEN {Out(u.res, e1, None)}
        ELSE IF u.res.val[1] = None THEN {Out(Panic("update available"), e1, None)}
        ELSE UNION {
            LET updatemeta == u.res.val[1][1]
                e2 == Append(e1, Ev("run_update", "read_link", 0, Ret(l)))
                g == get_single_device(devs)
                e3 == Append(e2, Ev("run_update", "get_single_device",
                                    IF g.kind = "ok" THEN g.val[1] ELSE 0, Ret(g)))
            IN  IF l.kind = "err" THEN {Out(l, e2, None)}
                ELSE IF g.kind = "err" THEN {Out(g, e3, None)}
                ELSE { IF r.res.kind # "ok" THEN Out(r.res, e3 \o r.ev, None)
                       ELSE Out(Ok(InstalledContent(updatemeta, cur.adopted_from)),
                                e3 \o r.ev, None)
                     : r \in run_grub_install(g.val[1]) }
          : l \in read_link }

\* fn run_update(&self, sysroot, _: &InstalledContent) -> Result<InstalledContent>
run_update(devs, cur) ==
    LET u == query_update
        e1 == Append(u.ev, Ev("run_update", "query_update", 0, OptRet(u.res)))
    IN  IF u.res.kind = "err" THEN {Out(u.res, e1, None)}
        ELSE IF u.res.val[1] = None THEN {Out(Panic("update available"), e1, None)}
        ELSE UNION {
            LET updatemeta == u.res.val[1][1]
                e2 == Append(e1, Ev("run_update", "read_link", 0, Ret(l)))
                g == get_single_device(devs)
                e3 == Append(e2, Ev("run_update", "get_single_device",
                                    IF g.kind = "ok" THEN g.val[1] ELSE 0, Ret(g)))
            IN  IF l.kind = "err" THEN {Out(l, e2, None)}
                ELSE IF g.kind = "err" THEN {Out(g, e3, None)}
                ELSE { IF r.res.kind # "ok" THEN Out(r.res, e3 \o r.ev, None)
                       ELSE Out(Ok(InstalledContent(updatemeta, None)),
                                e3 \o r.ev, None)
                     : r \in run_grub_install(g.val[1]) }
          : l \in read_link }

\* Mutant of validate: the installed metadata is compared with the recorded
\* update.
validate_compares(inst) ==
    Out(Ok(IF updateMeta = Some(inst.meta) THEN "Pass" ELSE "Fail"), <<>>, None)

\* fn validate(&self, _: &InstalledContent) -> Result<ValidationResult>
validate(inst) == Out(Ok("Skip"), <<>>, None)

----------------------------------------------------------------------------
(* The driver around the component *)

\* The driver stores the InstalledContent a successful install, run_update
\* or adopt_update returned as the component's installed record, as the last
\* step of the call; a failed call stores nothing.
PersistInstalled(res) ==
    IF res.kind = "ok" THEN Some(res.val[1]) ELSE installed

\* The update metadata record after a call with outcome o.
PersistUpdateMeta(o) ==
    IF o.written # None THEN o.written ELSE updateMeta

\* The driver's "pending update?" check: the record query_update returned,
\* compared with the persisted installed record.
update_available(inst, upd) ==
    /\ upd.kind = "ok"
    /\ upd.val[1] # None
    /\ inst.meta # upd.val[1][1]

\* Between calls: the previous call has returned and its record is cleared.
Idle == op = "none"

\* The arguments the driver calls with: the installed record it holds.
CallArg == [NoArg EXCEPT !.cur = installed]

\* What every call records.
Record(name, a, o) ==
    /\ Idle
    /\ op' = name
    /\ arg' = a
    /\ result' = o.res
    /\ log' = o.ev

----------------------------------------------------------------------------
(* Specification *)

\* A fresh machine: nothing recorded, nothing installed, no call made yet.
Init ==
    /\ updateMeta = None
    /\ installed = None
    /\ op = "none"
    /\ arg = NoArg
    /\ result = Ok("unit")
    /\ log = <<>>
    /\ adoptSeen = None
    /\ lastQuery = None

GenerateUpdateMetadata ==
    \E o \in generate_update_metadata :
        /\ Record("generate_update_metadata", CallArg, o)
        /\ updateMeta' = PersistUpdateMeta(o)
        /\ lastQuery' = None
        /\ UNCHANGED <<installed, adoptSeen>>

Install ==
    \E device \in Devices : \E o \in install(device) :
        /\ Record("install", [CallArg EXCEPT !.device = device], o)
        /\ updateMeta' = PersistUpdateMeta(o)
        /\ installed' = PersistInstalled(o.res)
        /\ lastQuery' = None
        /\ UNCHANGED adoptSeen

QueryUpdate ==
    /\ Record("query_update", CallArg, query_update)
    /\ updateMeta' = PersistUpdateMeta(query_update)
    /\ lastQuery' = Some([n |-> IF lastQuery = None THEN 1
                                ELSE IF lastQuery[1].n < MaxQueries
                                THEN lastQuery[1].n + 1
                                ELSE MaxQueries,
                          res |-> query_update.res])
    /\ UNCHANGED <<installed, adoptSeen>>

\* The driver's update check against the installed record.
CheckUpdate ==
    /\ installed # None
    /\ LET u == query_update
           pending == IF update_available(installed[1], u.res)
                      THEN u.res.val[1] ELSE None
       IN  /\ Record("check_update", CallArg,
                     Out(Ok(pending), u.ev, u.written))
           /\ updateMeta' = PersistUpdateMeta(u)
    /\ UNCHANGED <<installed, adoptSeen, lastQuery>>

QueryAdopt ==
    \E devs \in Topologies : \E o \in query_adopt(devs) :
        /\ Record("query_adopt", CallArg, o)
        /\ updateMeta' = PersistUpdateMeta(o)
        /\ adoptSeen' = IF o.res.kind = "ok" THEN o.res.val[1] ELSE adoptSeen
        /\ UNCHANGED <<installed, lastQuery>>

AdoptUpdate ==
    \E devs \in Topologies : \E update \in LiveMetas :
      \E o \in adopt_update(devs, update) :
        /\ Record("adopt_update", [CallArg EXCEPT !.update = Some(update)], o)
        /\ updateMeta' = PersistUpdateMeta(o)
        /\ installed' = PersistInstalled(o.res)
        /\ lastQuery' = None
        /\ UNCHANGED adoptSeen

RunUpdate ==
    /\ installed # None
    /\ \E devs \in Topologies : \E o \in run_update(devs, installed[1]) :
        /\ Record("run_update", CallArg, o)
        /\ updateMeta' = PersistUpdateMeta(o)
        /\ installed' = PersistInstalled(o.res)
        /\ lastQuery' = None
        /\ UNCHANGED adoptSeen

Validate ==
    /\ installed # None
    /\ Record("validate", CallArg, validate(installed[1]))
    /\ updateMeta' = PersistUpdateMeta(validate(installed[1]))
    /\ UNCHANGED <<installed, adoptSeen, lastQuery>>

\* One driver run: ask for a pending update and, when there is one, apply
\* it with run_update and store the returned record; otherwise do nothing.
DriverUpdate ==
    /\ installed # None
    /\ LET u == query_update IN
       IF update_available(installed[1], u.res)
       THEN \E devs \in Topologies : \E o \in run_update(devs, installed[1]) :
               /\ Record("driver_update", CallArg,
                         Out(o.res, u.ev \o o.ev, o.written))
               /\ updateMeta' = PersistUpdateMeta(o)
               /\ installed' = PersistInstalled(o.res)
               /\ lastQuery' = None
       ELSE /\ Record("driver_update", CallArg, Out(Ok(None), u.ev, u.written))
            /\ updateMeta' = PersistUpdateMeta(u)
            /\ UNCHANGED <<installed, lastQuery>>
    /\ UNCHANGED adoptSeen

\* The driver is done with the result of the call; the recorder is cleared
\* for the next call.
Return ==
    /\ ~Idle
    /\ op' = "none"
    /\ arg' = NoArg
    /\ result' = Ok("unit")
    /\ log' = <<>>
    /\ UNCHANGED <<updateMeta, installed, adoptSeen, lastQuery>>

Next ==
    \/ GenerateUpdateMetadata
    \/ Install
    \/ QueryUpdate
    \/ CheckUpdate
    \/ QueryAdopt
    \/ AdoptUpdate
    \/ RunUpdate
    \/ Validate
    \/ DriverUpdate
    \/ Return

Spec == Init /\ [][Next]_vars

\* The comparison check: every pair of a persisted installed record and a
\* recorded update, over all field values.
InitCmp ==
    /\ updateMeta \in {None} \cup { Some(m) : m \in CmpMetas }
    /\ installed \in { Some(InstalledContent(m, None)) : m \in CmpMetas }
    /\ op = "none"
    /\ arg = NoArg
    /\ result = Ok("unit")
    /\ log = <<>>
    /\ adoptSeen = None
    /\ lastQuery = None

NextCmp ==
    \/ CheckUpdate
    \/ QueryUpdate
    \/ Return

SpecCmp == InitCmp /\ [][NextCmp]_vars

----------------------------------------------------------------------------
(* Reading the log of a call *)

\* Positions of the calls of `call` made by `by`.
CallsBy(l, by, call) == { i \in DOMAIN l : l[i].by = by /\ l[i].call = call }

\* Number of times the installer process was spawned.
Spawns(l) == Cardinality(CallsBy(l, "run_grub_install", "grub2-install"))

\* Number of times the generic adoptable-prior-state probe was invoked.
Probes(l) == Cardinality(CallsBy(l, "query_adopt", "query_adopt_state"))

LocatorErrors == {E_NoDevice, E_MultiDevice}

\* The locator reported a device-resolution error to `by`.
LocatorFailed(l, by) ==
    \E i \in CallsBy(l, by, "get_single_device") : l[i].ret \in LocatorErrors

\* The platform reported EFI boot mode.
EfiReported(l) ==
    \E i \in CallsBy(l, "query_adopt", "is_efi_booted") : l[i].ret = "true"

\* The adoption scan found no BIOS-boot partition: the device lookup failed
\* or the device has none.
NoBiosBootFound(l) ==
    \/ LocatorFailed(l, "get_bios_boot_partition")
    \/ \E i \in CallsBy(l, "get_bios_boot_partition",
                        "blockdev::get_bios_boot_partition") : l[i].ret = "none"

\* What query_adopt answers "none" on: the gate closed, or the probe found
\* nothing.
QueryAdoptSaidNone(l) ==
    \/ EfiReported(l) /\ NoBiosBootFound(l)
    \/ \E i \in CallsBy(l, "query_adopt", "query_adopt_state") : l[i].ret = "none"

MutatingOps == {"install", "run_update", "adopt_update", "generate_update_metadata"}

----------------------------------------------------------------------------
(* Claims *)

\* C1: when no build-time update metadata is recorded, install returns the
\* "no update metadata" error and neither checks for nor spawns the installer.
C1_InstallWithoutMetadata ==
    (op = "install" /\ updateMeta = None) =>
        /\ result = Err(E_NoMeta)
        /\ Spawns(log) = 0
        /\ \A i \in DOMAIN log : log[i].by # "run_grub_install"

C1_Witness ==
    /\ op = "install"
    /\ updateMeta = None
    /\ result.kind = "err"
    /\ Len(log) = 1

\* C2: a failing install, run_update, adopt_update or
\* generate_update_metadata leaves both persisted records as they were.
C2_FailedCallWritesNothing ==
    [][ (op' \in MutatingOps /\ result'.kind = "err")
            => (updateMeta' = updateMeta /\ installed' = installed) ]_vars

C2_Witness ==
    /\ op = "run_update"
    /\ result = Err(E_Run)
    /\ Spawns(log) = 1
    /\ updateMeta # None
    /\ installed # None
    /\ installed[1].meta # updateMeta[1]

\* C3 as stated: whenever the locator reports a device-resolution error in
\* the course of run_update or adopt_update, the call returns that error,
\* spawns no installer and writes nothing.
C3_AnyLocatorErrorPropagates ==
    [][ \A i \in DOMAIN log' :
          ( /\ op' \in {"run_update", "adopt_update"}
            /\ log'[i].call = "get_single_device"
            /\ log'[i].ret \in LocatorErrors )
          => /\ result' = Err(log'[i].ret)
             /\ Spawns(log') = 0
             /\ updateMeta' = updateMeta
             /\ installed' = installed ]_vars

\* C3 amended: a device-resolution error at the call's own device-resolution
\* step (in adopt_update: after query_adopt returned Some) is returned
\* unchanged, with no installer spawned and nothing written.
C3_ResolutionErrorPropagates ==
    [][ \A i \in DOMAIN log' :
          ( /\ op' \in {"run_update", "adopt_update"}
            /\ log'[i].by = op'
            /\ log'[i].call = "get_single_device"
            /\ log'[i].ret \in LocatorErrors )
          => /\ result' = Err(log'[i].ret)
             /\ Spawns(log') = 0
             /\ updateMeta' = updateMeta
             /\ installed' = installed ]_vars

C3_Witness ==
    /\ op = "adopt_update"
    /\ LocatorFailed(log, "adopt_update")
    /\ result = Err(E_MultiDevice)
    /\ installed # None

\* C4: EFI boot mode reported and no BIOS-boot partition found: query_adopt
\* returns none and never invokes the generic probe.
C4_EfiWithoutBiosBootSkips ==
    (op = "query_adopt" /\ EfiReported(log) /\ NoBiosBootFound(log)) =>
        /\ result = Ok(None)
        /\ Probes(log) = 0

C4_Witness ==
    /\ op = "query_adopt"
    /\ EfiReported(log)
    /\ \E i \in DOMAIN log : log[i].call = "blockdev::get_bios_boot_partition"
                             /\ log[i].ret = "none"
    /\ result = Ok(None)

\* C5: in query_adopt every locator failure (device lookup or partition
\* lookup) is soft: the call completes with "none found"; in run_update a
\* locator failure is returned as the error.
C5_ScanFailureIsSoft ==
    /\ ( /\ op = "query_adopt"
         /\ \E i \in DOMAIN log : /\ log[i].by = "get_bios_boot_partition"
                                  /\ log[i].ret \notin {"ok", "some", "none"} )
       => result = Ok(None)
    /\ (op = "run_update" /\ LocatorFailed(log, "run_update"))
       => (result.kind = "err" /\ result.err \in LocatorErrors)

\* C6: adopt_update evaluates query_adopt itself; when that returns none the
\* call fails, whatever an earlier query_adopt reported, without resolving a
\* device or spawning the installer.
C6_AdoptRechecksAdoptable ==
    (op = "adopt_update" /\ QueryAdoptSaidNone(log)) =>
        /\ result = Err(E_Adopt)
        /\ CallsBy(log, "adopt_update", "get_single_device") = {}
        /\ Spawns(log) = 0

C6_Witness ==
    /\ op = "adopt_update"
    /\ adoptSeen # None
    /\ QueryAdoptSaidNone(log)
    /\ Probes(log) = 1
    /\ result = Err(E_Adopt)

\* C7: a successful adopt_update spawned the installer exactly once, on the
\* device the locator resolved, and returns meta = the update argument and
\* adopted_from = the version the probe reported in this call.
C7_AdoptResult ==
    (op = "adopt_update" /\ result.kind = "ok") =>
        /\ Spawns(log) = 1
        /\ \E i \in CallsBy(log, "adopt_update", "get_single_device") :
           \E j \in CallsBy(log, "run_grub_install", "grub2-install") :
              /\ i < j
              /\ log[i].ret = "ok"
              /\ log[j].n = log[i].n
              /\ log[j].ret = "success"
        /\ result.val[1].meta = arg.update[1]
        /\ Probes(log) = 1
        /\ \A i \in CallsBy(log, "query_adopt", "query_adopt_state") :
              result.val[1].adopted_from = Some(log[i].n)

C7_Witness ==
    /\ op = "adopt_update"
    /\ result.kind = "ok"
    /\ result.val[1].adopted_from = Some(1)
    /\ result.val[1].meta.version = 2
    /\ \E j \in DOMAIN log : log[j].call = "grub2-install" /\ log[j].n = 2

\* C8: a successful run_update resolved the device, spawned the installer,
\* and leaves as the persisted installed record the metadata query_update
\* returns, with adopted_from = None.
C8_RunUpdatePersists ==
    (op = "run_update" /\ result.kind = "ok") =>
        /\ \E i \in CallsBy(log, "run_update", "get_single_device") :
           \E j \in CallsBy(log, "run_grub_install", "grub2-install") :
              i < j /\ log[j].n = log[i].n /\ log[j].ret = "success"
        /\ Spawns(log) = 1
        /\ updateMeta # None
        /\ installed = Some(InstalledContent(updateMeta[1], None))
        /\ result.val[1] = installed[1]

C8_Witness ==
    /\ op = "run_update"
    /\ result.kind = "ok"
    /\ arg.cur[1].meta = ContentMetadata(1, 1, 1)
    /\ updateMeta = Some(ContentMetadata(1, 2, 2))
    /\ installed[1].meta = ContentMetadata(1, 2, 2)

\* C9: run_update always returns an InstalledContent or an error; with no
\* update metadata recorded it returns the error naming the missing metadata.
C9_RunUpdateReturns ==
    op = "run_update" =>
        /\ result.kind \in {"ok", "err"}
        /\ (updateMeta = None => result = Err(E_NoMeta))

C11_QueryUpdateIdempotent ==
    [][ op' = "query_update" =>
          /\ lastQuery # None => result' = lastQuery[1].res
          /\ updateMeta' = updateMeta
          /\ installed' = installed
          /\ Spawns(log') = 0 ]_vars

C11_Witness ==
    /\ op = "query_update"
    /\ lastQuery # None
    /\ lastQuery[1].n >= 2
    /\ result.val[1] # None
    /\ installed # None

\* C12: generate_update_metadata writes the build-time record exactly when
\* it succeeds. With the installer binary missing or the package query
\* failing it fails and writes nothing; on success the persisted record is
\* the returned ContentMetadata, which is what query_update then returns.
C12_GenerateWritesIffSucceeds ==
    [][ op' = "generate_update_metadata" =>
          LET g == "generate_update_metadata"
              writes == CallsBy(log', g, "write_update_metadata")
              wrote == \E i \in writes : log'[i].ret = "ok"
              binMissing == \E i \in CallsBy(log', g, "exists") :
                                log'[i].ret = "false"
              queryFailed == \E i \in CallsBy(log', g, "query_files") :
                                log'[i].ret # "ok"
          IN  /\ (result'.kind = "ok") <=> wrote
              /\ (binMissing \/ queryFailed) =>
                    (result'.kind = "err" /\ writes = {})
              /\ binMissing => result' = Err(E_Bin)
              /\ result'.kind # "ok" => updateMeta' = updateMeta
              /\ result'.kind = "ok" =>
                    /\ updateMeta' = Some(result'.val[1])
                    /\ query_update'.res = Ok(Some(result'.val[1]))
              /\ installed' = installed ]_vars

C12_Witness ==
    /\ op = "generate_update_metadata"
    /\ result = Ok(ContentMetadata(1, 2, 2))
    /\ updateMeta = Some(ContentMetadata(1, 2, 2))
    /\ query_update.res = Ok(Some(ContentMetadata(1, 2, 2)))

\* C13: on a machine with nothing installed, once generate_update_metadata
\* has recorded M, a successful install returns meta = M, adopted_from =
\* None and no filetree.
C13_InstallResult ==
    (op = "install" /\ result.kind = "ok") =>
        /\ updateMeta # None
        /\ result.val[1].meta = updateMeta[1]
        /\ result.val[1].adopted_from = None
        /\ result.val[1].filetree = None
        /\ DOMAIN result.val[1] = {"meta", "filetree", "adopted_from"}

C13_Witness ==
    /\ op = "install"
    /\ arg.cur = None
    /\ result.kind = "ok"
    /\ updateMeta = Some(ContentMetadata(1, 1, 1))
    /\ result.val[1].meta = ContentMetadata(1, 1, 1)

\* C14: an InstalledContent carries adopted_from exactly when adopt_update
\* produced it: install and run_update return None, adopt_update returns
\* the version of the installation it adopted.
C14_AdoptedFromOnlyByAdopt ==
    (op \in {"install", "run_update", "adopt_update"} /\ result.kind = "ok") =>
        /\ (result.val[1].adopted_from # None) <=> (op = "adopt_update")
        /\ op = "adopt_update" =>
              \E i \in CallsBy(log, "query_adopt", "query_adopt_state") :
                  result.val[1].adopted_from = Some(log[i].n)

C14_Witness ==
    /\ op = "run_update"
    /\ result.kind = "ok"
    /\ arg.cur # None
    /\ arg.cur[1].adopted_from # None
    /\ result.val[1].adopted_from = None

\* An installer process that exited successfully is in the log.
InstallerSucceeded(l) ==
    \E i \in CallsBy(l, "run_grub_install", "grub2-install") : l[i].ret = "success"

\* C15: the persisted installed record is created or changed only by an
\* install, run_update (called directly or by a driver run) or adopt_update
\* call in which the installer ran successfully; query_adopt creates and
\* changes no persisted record.
C15_RecordOnlyAfterInstaller ==
    [][ /\ installed' # installed =>
            /\ op' \in {"install", "run_update", "adopt_update",
                       "driver_update"}
            /\ InstallerSucceeded(log')
            /\ result'.kind = "ok"
            /\ installed' = Some(result'.val[1])
        /\ op' = "query_adopt" =>
            (installed' = installed /\ updateMeta' = updateMeta) ]_vars

C15_Witness ==
    /\ op = "adopt_update"
    /\ arg.cur = None
    /\ adoptSeen # None
    /\ installed # None
    /\ InstallerSucceeded(log)

\* C16: validate returns Skip for every installed record in every state,
\* spawns no installer and changes no persisted record.
C16_ValidateSkips ==
    [][ op' = "validate" =>
          /\ result' = Ok("Skip")
          /\ Spawns(log') = 0
          /\ log' = <<>>
          /\ updateMeta' = updateMeta
          /\ installed' = installed ]_vars

C16_Witness ==
    /\ op = "validate"
    /\ result = Ok("Skip")
    /\ updateMeta # None
    /\ installed # None
    /\ installed[1].meta # updateMeta[1]
    /\ installed[1].adopted_from # None

InstallingOps == {"install", "run_update", "adopt_update"}

\* C17: the installer is spawned only after the module directory and then
\* the installer binary were found, in that order; with the module directory
\* missing the call fails with "Failed to find grub2-modules", which is not
\* the error of a failed installer run, and nothing is spawned.
C17_ChecksBeforeSpawn ==
    op \in InstallingOps =>
        /\ \A j \in CallsBy(log, "run_grub_install", "grub2-install") :
             \E i \in CallsBy(log, "run_grub_install", "check_grub_modules") :
             \E k \in CallsBy(log, "run_grub_install", "exists") :
                /\ i < k /\ k < j
                /\ log[i].ret = "true"
                /\ log[k].ret = "true"
        /\ (\E i \in CallsBy(log, "run_grub_install", "check_grub_modules") :
                log[i].ret = "false")
           => /\ result = Err(E_Modules)
              /\ result # Err(E_Run)
              /\ Spawns(log) = 0
              /\ CallsBy(log, "run_grub_install", "exists") = {}

C17_Witness ==
    /\ op = "run_update"
    /\ result = Err(E_Modules)
    /\ Spawns(log) = 0
    /\ log[Len(log)].call = "check_grub_modules"

\* C18: when the machine is not EFI-booted, or is EFI-booted and has a
\* BIOS-boot partition, query_adopt invokes the generic probe exactly once
\* and returns what the probe returned.
C18_OtherwiseDelegates ==
    ( /\ op = "query_adopt"
      /\ \/ \E i \in CallsBy(log, "query_adopt", "is_efi_booted") :
                log[i].ret = "false"
         \/ /\ EfiReported(log)
            /\ \E i \in CallsBy(log, "get_bios_boot_partition",
                                "blockdev::get_bios_boot_partition") :
                  log[i].ret = "some" )
    => /\ Probes(log) = 1
       /\ \A i \in CallsBy(log, "query_adopt", "query_adopt_state") :
             /\ i = Len(log)
             /\ result = IF log[i].ret = "none" THEN Ok(None)
                         ELSE IF log[i].ret = "some"
                         THEN Ok(Some(Adoptable(log[i].n)))
                         ELSE Err(E_Probe)

C18_Witness ==
    /\ op = "query_adopt"
    /\ EfiReported(log)
    /\ Probes(log) = 1
    /\ result = Ok(Some(Adoptable(2)))

\* C19: a call of install, run_update or adopt_update spawns the installer at
\* most once, returns an InstalledContent only if that one run exited
\* successfully, and returns an error whenever the run exited non-zero.
C19_NoRetries ==
    op \in InstallingOps =>
        /\ Spawns(log) <= 1
        /\ result.kind = "ok" => (Spawns(log) = 1 /\ InstallerSucceeded(log))
        /\ (\E i \in CallsBy(log, "run_grub_install", "grub2-install") :
                log[i].ret # "success")
           => result = Err(E_Run)

C19_Witness ==
    /\ op = "adopt_update"
    /\ result = Err(E_Run)
    /\ Spawns(log) = 1
    /\ installed # None

\* The installed record carries the recorded update metadata.
InSync ==
    /\ installed # None
    /\ updateMeta # None
    /\ installed[1].meta = updateMeta[1]

\* C20: a successful run_update, stored as the installed record, leaves the
\* installed metadata equal to what query_update returns; from then on the
\* update check reports nothing pending and a driver run spawns no installer
\* and changes nothing, until generate_update_metadata records different
\* metadata.
C20_DriverConverges ==
    [][ /\ ( /\ op' \in {"run_update", "driver_update"}
             /\ result'.kind = "ok"
             /\ InstallerSucceeded(log') )
           => /\ installed' = Some(result'.val[1])
              /\ query_update'.res = Ok(Some(installed'[1].meta))
              /\ ~update_available(installed'[1], query_update'.res)
              /\ InSync'
        /\ (InSync /\ op' = "check_update") => result' = Ok(None)
        /\ (InSync /\ op' = "driver_update")
           => /\ Spawns(log') = 0
              /\ result'.kind = "ok"
              /\ installed' = installed
              /\ updateMeta' = updateMeta
        /\ (InSync /\ ~InSync')
           => \/ op' = "generate_update_metadata" /\ updateMeta' # updateMeta
              \/ op' = "adopt_update" ]_vars

C20_Witness ==
    /\ op = "driver_update"
    /\ result.kind = "ok"
    /\ InstallerSucceeded(log)
    /\ arg.cur[1].meta # installed[1].meta
    /\ arg.cur[1].adopted_from # None
    /\ InSync

====
